---- MODULE Spec2Model ----
(***************************************************************************)
(* A model of domino._embed: embed() and _embed(), the dispatch that       *)
(* infers a modality, names the output column, fetches an encoder bundle   *)
(* from the registry and runs the batched map over one column.             *)
(*                                                                         *)
(* Python strings that the code formats or joins (column names, encoder    *)
(* names, directories) are sequences of tokens, so that the f-string and   *)
(* os.path.join are computed and not assumed.  An optional argument is a   *)
(* set: {} is None and {v} is the value v.                                 *)
(***************************************************************************)
EXTENDS Naturals, Sequences, FiniteSets

VARIABLES
    pc,          \* position of the one caller inside embed/_embed
    args,        \* the arguments as the caller passed them (never reassigned)
    data0,       \* the caller's DataFrame as it was when embed was called
    data,        \* the caller's DataFrame object (embed mutates it in place)
    modality,    \* embed's local `modality`
    out_col,     \* embed's local `out_col`
    encoder,     \* embed's local `encoder` (name, then bundle, then Encoder)
    registryArg, \* the device handed to encoders.get ({} while not called)
    inspected,   \* whether infer_modality looked at the column's type
    device,      \* _embed's local `device`
    embed_input, \* _embed's local `embed_input`
    mapcall,     \* keyword arguments of the running embed_input.map call
    pos,         \* rows of embed_input the map has consumed
    out,         \* rows the map has produced
    lastBatch,   \* what the map lambda returned for the latest batch
    ret,         \* what embed returned ({} while it has not)
    err,         \* which error ended the call ("none" while none)
    prev         \* mmap_dir and mmap_path of the latest memory-mapped map

vars == <<pc, args, data0, data, modality, out_col, encoder, registryArg,
          inspected, device, embed_input, mapcall, pos, out, lastBatch,
          ret, err, prev>>

----------------------------------------------------------------------------
(* Bounds of the model. *)

MaxRows == 3
MaxBatch == 2

----------------------------------------------------------------------------
(* Optional values and strings. *)

None == {}
Some(v) == {v}
Val(o) == CHOOSE v \in o : TRUE

Min(a, b) == IF a <= b THEN a ELSE b

Last(s) == s[Len(s)]

----------------------------------------------------------------------------
(* The inputs the caller draws from. *)

RegisteredNames == {<<"clip">>, <<"bit">>, <<"robust">>, <<"transformers">>}

EncoderArgs == {<<"clip">>, <<"bit">>, <<"resnet">>}

Modalities == {"image", "text"}

ModalityArgs == {None, Some("image"), Some("audio")}

InputCols == {<<"img">>, <<"txt">>, <<"obj">>}

OutColArgs == {None, Some(<<"emb">>), Some(<<"txt">>)}

DeviceArgs == {None, Some("cpu"), Some("cuda")}

MmapDirArgs == {None, Some(<<"d">>), Some(<<"e", "/">>)}

BatchKinds == {"tensor", "column", "other"}

ColumnKind(name) ==
    IF name = <<"img">> THEN "ImageColumn"
    ELSE IF name = <<"txt">> THEN "ScalarColumn"
    ELSE "ObjectColumn"

Column(name, n) ==
    [kind |-> ColumnKind(name),
     rows |-> [i \in 1..n |-> <<name[1], i>>],
     collate_fn |-> "default"]

DataFrame(n) == [nrows |-> n, cols |-> [c \in InputCols |-> Column(c, n)]]

NoFrame == [nrows |-> 0, cols |-> [c \in {} |-> 0]]

NoArgs == [input_col |-> <<>>, encoder |-> <<>>, modality |-> None,
           out_col |-> None, device |-> None, mmap_dir |-> None,
           batch_size |-> 1]

NoEncoder == [tag |-> "none"]

NoInput == [rows |-> <<>>, preprocess |-> FALSE, collate_fn |-> "default"]

NoMap == [running |-> FALSE]

NoBatch == [log |-> <<>>, rows |-> <<>>, on |-> "none", form |-> "none",
            collated |-> "none"]

----------------------------------------------------------------------------
Init ==
    /\ pc = "idle"
    /\ args = NoArgs
    /\ data0 = NoFrame
    /\ data = NoFrame
    /\ modality = None
    /\ out_col = None
    /\ encoder = NoEncoder
    /\ registryArg = {}
    /\ inspected = FALSE
    /\ device = None
    /\ embed_input = NoInput
    /\ mapcall = NoMap
    /\ pos = 0
    /\ out = <<>>
    /\ lastBatch = NoBatch
    /\ ret = {}
    /\ err = "none"
    /\ prev = {}

(* The caller calls embed(data, input_col, encoder, modality, out_col,     *)
(* device, mmap_dir, num_workers, batch_size).                             *)
Call ==
    /\ pc = "idle"
    /\ \E n \in 0..MaxRows, ic \in InputCols, e \in EncoderArgs,
          m \in ModalityArgs, oc \in OutColArgs, d \in DeviceArgs,
          md \in MmapDirArgs, bs \in 1..MaxBatch :
          /\ args' = [input_col |-> ic, encoder |-> e, modality |-> m,
                      out_col |-> oc, device |-> d, mmap_dir |-> md,
                      batch_size |-> bs]
          /\ data0' = DataFrame(n)
          /\ data' = DataFrame(n)
          /\ modality' = m
          /\ out_col' = oc
          /\ encoder' = [tag |-> "name", name |-> e]
    /\ pc' = "infer"
    /\ UNCHANGED <<registryArg, inspected, device, embed_input, mapcall, pos,
                   out, lastBatch, ret, err, prev>>

----------------------------------------------------------------------------
(* infer_modality(col): the modality of a column, or the ValueError.  *)
infer_modality_fallthrough(col) ==
    IF col.kind = "ImageColumn" THEN "image" ELSE "text"

infer_modality(col) ==
    IF col.kind = "ImageColumn" THEN "image"
    ELSE IF col.kind = "ScalarColumn" THEN "text"
    ELSE "ValueError"

(* `if modality is None:` *)
AlwaysInfer(m) == TRUE

NeedsInference(m) == m = None

InferModality ==
    /\ pc = "infer"
    /\ IF NeedsInference(modality)
       THEN LET r == infer_modality(data.cols[args.input_col])
            IN  /\ inspected' = TRUE
                /\ IF r = "ValueError"
                   THEN /\ pc' = "raised"
                        /\ err' = "infer"
                        /\ UNCHANGED modality
                   ELSE /\ pc' = "outcol"
                        /\ modality' = Some(r)
                        /\ UNCHANGED err
       ELSE /\ pc' = "outcol"
            /\ UNCHANGED <<modality, inspected, err>>
    /\ UNCHANGED <<args, data0, data, out_col, encoder, registryArg, device,
                   embed_input, mapcall, pos, out, lastBatch, ret, prev>>

(* f"{encoder}({input_col})" *)
FormatSwapped(enc, input_col) == input_col \o <<"(">> \o enc \o <<")">>

FormatOutCol(enc, input_col) == enc \o <<"(">> \o input_col \o <<")">>

(* `if out_col is None: out_col = ...`, run while `encoder` is still the   *)
(* caller's argument.                                                      *)
DefaultOutCol ==
    /\ pc = "outcol"
    /\ out_col' = IF out_col = None
                  THEN Some(FormatOutCol(encoder.name, args.input_col))
                  ELSE out_col
    /\ pc' = "registry"
    /\ UNCHANGED <<args, data0, data, modality, encoder, registryArg,
                   inspected, device, embed_input, mapcall, pos, out,
                   lastBatch, ret, err, prev>>

(* encoders.get(encoder, device=device, **kwargs): an unregistered name    *)
(* fails; a registered one is constructed with the device and gives a      *)
(* bundle keyed by the modalities it supports.                             *)
Registered(name) == name \in RegisteredNames

RegistryGet ==
    /\ pc = "registry"
    /\ registryArg' = Some(args.device)
    /\ IF Registered(encoder.name)
       THEN /\ \E mods \in SUBSET Modalities :
                  encoder' = [tag |-> "bundle", mods |-> mods]
            /\ pc' = "check"
            /\ UNCHANGED err
       ELSE /\ pc' = "raised"
            /\ err' = "registry"
            /\ UNCHANGED encoder
    /\ UNCHANGED <<args, data0, data, modality, out_col, inspected, device,
                   embed_input, mapcall, pos, out, lastBatch, ret, prev>>

(* `if modality not in encoder:` *)
NeverUnsupported(m, bundle) == FALSE

Unsupported(m, bundle) == Val(m) \notin bundle.mods

(* The check, then `encoder = encoder[modality]`: an Encoder whose         *)
(* preprocess and collate may each be None; then the call of _embed, whose *)
(* `device` parameter is embed's.                                          *)
CheckModality ==
    /\ pc = "check"
    /\ IF Unsupported(modality, encoder)
       THEN /\ pc' = "raised"
            /\ err' = "modality"
            /\ UNCHANGED <<encoder, device>>
       ELSE /\ \E pre \in BOOLEAN, col \in BOOLEAN :
                  encoder' = [tag |-> "encoder", preprocess |-> pre,
                              collate |-> col]
            /\ device' = args.device
            /\ pc' = "embed"
            /\ UNCHANGED err
    /\ UNCHANGED <<args, data0, data, modality, out_col, registryArg,
                   inspected, embed_input, mapcall, pos, out, lastBatch, ret,
                   prev>>

----------------------------------------------------------------------------
(* _embed *)

(* `mmap=mmap_dir is not None` *)
MmapAlways(mmap_dir) == TRUE

MmapFlag(mmap_dir) == mmap_dir # None

(* os.path.join(a, b) for a relative b *)
PathJoin(a, b) ==
    IF a = <<>> \/ Last(a) = "/" THEN a \o b ELSE a \o <<"/">> \o b

MmapFile == <<"emb_mmap.npy">>

(* `mmap_path=None if mmap_dir is None else os.path.join(...)` *)
MmapPathPerColumn(mmap_dir) ==
    IF mmap_dir = None THEN None
    ELSE Some(PathJoin(Val(mmap_dir), Val(out_col) \o <<".npy">>))

MmapPath(mmap_dir) ==
    IF mmap_dir = None THEN None
    ELSE Some(PathJoin(Val(mmap_dir), MmapFile))

(* data[name] = col *)
SetColumnOnly(df, name, col) ==
    [df EXCEPT !.cols = [c \in {name} |-> col]]

SetColumn(df, name, col) ==
    [df EXCEPT !.cols = [c \in (DOMAIN df.cols) \cup {name} |->
                            IF c = name THEN col ELSE df.cols[c]]]

(* Lines 136-145 and the start of the map call: the device default, the    *)
(* deferred preprocess, the collate function.  Without a preprocess,       *)
(* embed_input is the caller's column itself, so setting its collate_fn    *)
(* changes that column.                                                    *)
Setup ==
    /\ pc = "embed"
    /\ \E cuda_available \in BOOLEAN :
          device' = IF device = None
                    THEN Some(IF cuda_available THEN "cuda" ELSE "cpu")
                    ELSE device
    /\ LET col == data.cols[args.input_col]
           fn  == IF encoder.collate THEN "encoder" ELSE col.collate_fn
       IN  /\ embed_input' = [rows |-> col.rows,
                              preprocess |-> encoder.preprocess,
                              collate_fn |-> fn]
           /\ data' = IF encoder.preprocess THEN data
                      ELSE SetColumn(data, args.input_col,
                                     [col EXCEPT !.collate_fn = fn])
    /\ mapcall' = [running |-> TRUE,
                   batch_size |-> args.batch_size,
                   mmap |-> MmapFlag(args.mmap_dir),
                   mmap_path |-> MmapPath(args.mmap_dir)]
    /\ pos' = 0
    /\ out' = <<>>
    /\ pc' = "map"
    /\ UNCHANGED <<args, data0, modality, out_col, encoder, registryArg,
                   inspected, lastBatch, ret, err, prev>>

(* The callbacks, each recording itself in the batch's log. *)
Preprocess(r) == <<"pre", r>>

Encoded(r) == <<"emb", r>>

PreprocessRows(s) == [i \in 1..Len(s) |-> Preprocess(s[i])]

EncodeRows(s) == [i \in 1..Len(s) |-> Encoded(s[i])]

LoadBatch(rows, kind) ==
    LET pre == IF embed_input.preprocess
               THEN [log |-> <<"preprocess">>, rows |-> PreprocessRows(rows)]
               ELSE [log |-> <<>>, rows |-> rows]
        c   == IF embed_input.collate_fn = "encoder" THEN "collate"
               ELSE "default_collate"
    IN  [log |-> Append(pre.log, c), rows |-> pre.rows, on |-> "cpu",
         form |-> kind, collated |-> kind]

Unwrap(x) == IF x.form = "column" THEN [x EXCEPT !.form = "tensor"] ELSE x

ToDevice(x) ==
    IF x.form = "tensor"
    THEN [x EXCEPT !.on = Val(device), !.log = Append(@, "to_device")]
    ELSE x

prepare_input(x) == ToDevice(Unwrap(x))

Encode(x) ==
    [x EXCEPT !.rows = EncodeRows(@), !.form = "tensor",
              !.log = Append(@, "encode")]

Cpu(x) == [x EXCEPT !.on = "cpu", !.log = Append(@, "cpu")]

Detach(x) == [x EXCEPT !.log = Append(@, "detach")]

Numpy(x) == [x EXCEPT !.form = "ndarray", !.log = Append(@, "numpy")]

(* lambda x: encode(_prepare_input(x)).cpu().detach().numpy() *)
EncodeThenMove(x) == Numpy(Detach(ToDevice(Encode(Unwrap(x)))))

BatchFn(x) == Numpy(Detach(Cpu(Encode(prepare_input(x)))))

(* The map's batching: the next batch_size rows, or the rows that are left. *)
BatchEndDropLast(p, bs, n) == IF p + bs <= n THEN p + bs ELSE p

BatchEnd(p, bs, n) == Min(p + bs, n)

MapDone ==
    BatchEnd(pos, mapcall.batch_size, Len(embed_input.rows)) = pos

MapBatch ==
    /\ pc = "map"
    /\ ~MapDone
    /\ LET e == BatchEnd(pos, mapcall.batch_size, Len(embed_input.rows))
       IN  \E kind \in BatchKinds :
              LET y == BatchFn(LoadBatch(SubSeq(embed_input.rows, pos + 1, e),
                                         kind))
              IN  /\ lastBatch' = y
                  /\ out' = out \o y.rows
                  /\ pos' = e
    /\ UNCHANGED <<pc, args, data0, data, modality, out_col, encoder,
                   registryArg, inspected, device, embed_input, mapcall, ret,
                   err, prev>>

(* `data[out_col] = embed_input.map(...)`: the map has run through, its    *)
(* memory-mapped file (if any) is written, the column is set.              *)
Assign ==
    /\ pc = "map"
    /\ MapDone
    /\ data' = SetColumn(data, Val(out_col),
                         [kind |-> "TensorColumn", rows |-> out,
                          collate_fn |-> "default"])
    /\ prev' = IF mapcall.mmap
               THEN {[mmap_dir |-> Val(args.mmap_dir),
                      mmap_path |-> mapcall.mmap_path]}
               ELSE prev
    /\ pc' = "return"
    /\ UNCHANGED <<args, data0, modality, out_col, encoder, registryArg,
                   inspected, device, embed_input, mapcall, pos, out,
                   lastBatch, ret, err>>

(* `return data` *)
Return ==
    /\ pc = "return"
    /\ ret' = Some(data)
    /\ pc' = "returned"
    /\ UNCHANGED <<args, data0, data, modality, out_col, encoder, registryArg,
                   inspected, device, embed_input, mapcall, pos, out,
                   lastBatch, err, prev>>

(* The call is over (returned or raised): its locals are gone, what the    *)
(* map wrote under mmap_dir stays.                                         *)
Finish ==
    /\ pc \in {"returned", "raised"}
    /\ pc' = "idle"
    /\ args' = NoArgs
    /\ data0' = NoFrame
    /\ data' = NoFrame
    /\ modality' = None
    /\ out_col' = None
    /\ encoder' = NoEncoder
    /\ registryArg' = {}
    /\ inspected' = FALSE
    /\ device' = None
    /\ embed_input' = NoInput
    /\ mapcall' = NoMap
    /\ pos' = 0
    /\ out' = <<>>
    /\ lastBatch' = NoBatch
    /\ ret' = {}
    /\ err' = "none"
    /\ UNCHANGED prev

Next ==
    \/ Call
    \/ InferModality
    \/ DefaultOutCol
    \/ RegistryGet
    \/ CheckModality
    \/ Setup
    \/ MapBatch
    \/ Assign
    \/ Return
    \/ Finish

Spec == Init /\ [][Next]_vars

----------------------------------------------------------------------------
(* Properties. *)

Completed == pc \in {"return", "returned"}

InputRows == data0.cols[args.input_col].rows

Before(a, b, log) ==
    \A i, j \in DOMAIN log : (log[i] = a /\ log[j] = b) => i < j

(* C1: a completed call with out_col None stores the embeddings in the     *)
(* column named "{encoder}({input_col})", built from the encoder and       *)
(* input_col arguments as passed; a given out_col is the column's name     *)
(* unchanged, and no other column is created.                              *)
C1_OutColName ==
    Completed =>
        LET name == IF args.out_col = None
                    THEN args.encoder \o <<"(">> \o args.input_col \o <<")">>
                    ELSE Val(args.out_col)
        IN  /\ out_col = Some(name)
            /\ DOMAIN data.cols = (DOMAIN data0.cols) \cup {name}
            /\ data.cols[name].kind = "TensorColumn"
            /\ data.cols[name].rows = out

C1_Witness ==
    /\ pc = "returned"
    /\ args.out_col = None
    /\ data0.nrows > 0
    /\ Val(out_col) \in DOMAIN data.cols

(* C2: after a successful call the output column has as many rows as the   *)
(* input column, whatever the dataset size and batch_size, and every       *)
(* column of the DataFrame still has the DataFrame's row count.            *)
C2_RowCount ==
    Completed =>
        /\ Len(data.cols[Val(out_col)].rows) = Len(InputRows)
        /\ data.nrows = data0.nrows
        /\ \A c \in DOMAIN data.cols : Len(data.cols[c].rows) = data0.nrows

C2_Witness ==
    /\ pc = "returned"
    /\ data0.nrows > args.batch_size
    /\ data0.nrows % args.batch_size # 0
    /\ Len(data.cols[Val(out_col)].rows) = data0.nrows

C3_Raised ==
    err = "modality" =>
        /\ pc = "raised"
        /\ encoder.tag = "bundle"
        /\ Val(modality) \notin encoder.mods
        /\ data = data0
        /\ mapcall = NoMap
        /\ lastBatch = NoBatch
        /\ out = <<>>

C3_Step ==
    pc = "check" =>
        IF Val(modality) \in encoder.mods
        THEN pc' = "embed" /\ err' = "none"
        ELSE pc' = "raised" /\ err' = "modality" /\ data' = data0

(* C3: at the modality check, a modality the bundle does not hold ends the *)
(* call with the ValueError, with no map run and data as it was; a         *)
(* modality the bundle holds never raises it.                              *)
C3_UnsupportedModality == [] C3_Raised /\ [][C3_Step]_vars

C3_Witness ==
    /\ pc = "raised"
    /\ err = "modality"
    /\ args.modality = None
    /\ modality = Some("text")

(* C4: with modality None and a column that is neither an image nor a      *)
(* scalar column, the call ends with the inference ValueError before the   *)
(* registry is called (even for an unregistered encoder name), and data    *)
(* gets no column.                                                         *)
C4_InferenceErrorFirst ==
    (/\ pc \notin {"idle", "infer"}
     /\ args.modality = None
     /\ data0.cols[args.input_col].kind \notin {"ImageColumn", "ScalarColumn"})
    => /\ pc = "raised"
       /\ err = "infer"
       /\ registryArg = {}
       /\ encoder = [tag |-> "name", name |-> args.encoder]
       /\ data = data0

C4_Witness ==
    /\ pc = "raised"
    /\ err = "infer"
    /\ args.encoder \notin RegisteredNames
    /\ registryArg = {}

(* C5: the column type is inspected exactly when the modality argument is  *)
(* None; then an image column gives "image" and a scalar column "text"; a  *)
(* given modality is used as it is and the inference error cannot occur.   *)
C5_InferOnlyWhenNone ==
    pc \notin {"idle", "infer"} =>
        /\ inspected <=> (args.modality = None)
        /\ args.modality # None =>
              (modality = args.modality /\ err # "infer")
        /\ (args.modality = None /\ err # "infer") =>
              LET k == data0.cols[args.input_col].kind
              IN  \/ k = "ImageColumn" /\ modality = Some("image")
                  \/ k = "ScalarColumn" /\ modality = Some("text")

C5_Witness ==
    /\ pc = "returned"
    /\ args.modality = Some("image")
    /\ args.input_col = <<"obj">>
    /\ ~inspected

(* C6: embed returns the caller's DataFrame with the column out_col        *)
(* holding one embedding per input row, in row order; every other column   *)
(* keeps its name, type and rows.                                          *)
C6_Frame ==
    pc = "returned" =>
        /\ ret = Some(data)
        /\ Val(out_col) \in DOMAIN data.cols
        /\ data.cols[Val(out_col)].rows =
              [i \in 1..Len(InputRows) |->
                  <<"emb", IF encoder.preprocess THEN <<"pre", InputRows[i]>>
                           ELSE InputRows[i]>>]
        /\ \A c \in (DOMAIN data0.cols) \ out_col :
              /\ c \in DOMAIN data.cols
              /\ data.cols[c].kind = data0.cols[c].kind
              /\ data.cols[c].rows = data0.cols[c].rows

C6_Witness ==
    /\ pc = "returned"
    /\ data0.nrows > 0
    /\ Val(out_col) \notin DOMAIN data0.cols
    /\ Cardinality(DOMAIN data.cols) = Cardinality(DOMAIN data0.cols) + 1

InsideDir(dir, path) ==
    /\ Len(path) > Len(dir)
    /\ SubSeq(path, 1, Len(dir)) = dir
    /\ \A i \in (Len(dir) + 1)..(Len(path) - 1) : path[i] = "/"
    /\ Last(path) # "/"

(* C7: the map is run memory-mapped exactly when mmap_dir is not None;     *)
(* with None it gets no path, and otherwise a path inside mmap_dir.        *)
C7_MmapIffDir ==
    mapcall.running =>
        /\ mapcall.mmap <=> (args.mmap_dir # None)
        /\ args.mmap_dir = None => mapcall.mmap_path = None
        /\ args.mmap_dir # None =>
              /\ mapcall.mmap_path # None
              /\ InsideDir(Val(args.mmap_dir), Val(mapcall.mmap_path))

C7_Witness ==
    /\ pc = "returned"
    /\ mapcall.mmap
    /\ args.mmap_dir = Some(<<"d">>)
    /\ pos > 0

(* C8 as stated: per batch the order is preprocess, collate, encode,       *)
(* move-to-device, detach-to-host.                                         *)
C8_OrderAsStated ==
    lastBatch # NoBatch =>
        /\ Before("preprocess", "collate", lastBatch.log)
        /\ Before("collate", "encode", lastBatch.log)
        /\ Before("encode", "to_device", lastBatch.log)
        /\ Before("to_device", "cpu", lastBatch.log)

(* C8: per batch the order is preprocess, collate, move-to-device, encode, *)
(* detach-to-host; preprocess and the encoder's collate run only when the  *)
(* Encoder supplies them, the move only for a tensor batch, and the stored *)
(* result is on the host.                                                  *)
C8_CallbackOrder ==
    lastBatch # NoBatch =>
        /\ lastBatch.log =
              (IF encoder.preprocess THEN <<"preprocess">> ELSE <<>>)
              \o (IF encoder.collate THEN <<"collate">>
                  ELSE <<"default_collate">>)
              \o (IF lastBatch.collated \in {"tensor", "column"}
                  THEN <<"to_device">> ELSE <<>>)
              \o <<"encode", "cpu", "detach", "numpy">>
        /\ lastBatch.on = "cpu"
        /\ lastBatch.form = "ndarray"

C8_Witness ==
    /\ lastBatch # NoBatch
    /\ encoder.preprocess
    /\ encoder.collate
    /\ lastBatch.collated = "tensor"
    /\ device = Some("cuda")
    /\ lastBatch.on = "cpu"

(* C9: the memory-map path is emb_mmap.npy in mmap_dir and nothing else    *)
(* decides it: a map run under the mmap_dir of an earlier memory-mapped    *)
(* map gets that map's path.                                               *)
C9_SamePath ==
    (mapcall.running /\ args.mmap_dir # None) =>
        /\ Val(mapcall.mmap_path) \in
              {Val(args.mmap_dir) \o <<"emb_mmap.npy">>,
               Val(args.mmap_dir) \o <<"/", "emb_mmap.npy">>}
        /\ \A p \in prev :
              p.mmap_dir = Val(args.mmap_dir) =>
                  p.mmap_path = mapcall.mmap_path

C9_Witness ==
    /\ pc = "map"
    /\ pos = 0
    /\ args.out_col = None
    /\ args.mmap_dir # None
    /\ \E p \in prev :
          /\ p.mmap_dir = Val(args.mmap_dir)
          /\ p.mmap_path = mapcall.mmap_path

(* C10: the device a tensor batch is moved to is the device value that was *)
(* passed to the registry, for every device argument, None included.       *)
C10_SameDevice ==
    (\E i \in DOMAIN lastBatch.log : lastBatch.log[i] = "to_device")
        => registryArg = Some(device)
====
